---- MODULE Spec2Model ----
(***************************************************************************)
(* A model of heliopy.data.mms: the file-name codec, the path builders,    *)
(* the time filter, the interval resolver, the version filter, the         *)
(* attributes of the MMS downloader, its requests to the SDC and its       *)
(* operations (search, downloads, download, fname, fnames, intervals,      *)
(* load_local_file, local_file_names).                                     *)
(*                                                                         *)
(* An operator that ends in "CHOOSE r \in {F(x) : x \in {e}} : TRUE" is    *)
(* F(e) with e evaluated once.                                             *)
(*                                                                         *)
(* Strings are sequences of one-character strings, so that str.split,      *)
(* slicing and strptime are computed as Python computes them.  A datetime  *)
(* is a record [day, sec]: the proleptic Gregorian ordinal of its date and *)
(* the second of that day, which is how datetime orders and subtracts.     *)
(* A call that returns v is Ok(v); a call that raises E is Raise("E").     *)
(***************************************************************************)
EXTENDS Integers, Sequences, FiniteSets, TLC

VARIABLES
    args,        \* the arguments of the construct_filename call
    fnames,      \* what construct_filename returned
    parts,       \* what parse_file_names returned for fnames
    listing,     \* the file names the SDC answers a file_names request with
    start_date,  \* MMSDownloader.start_date
    end_date,    \* MMSDownloader.end_date
    filtered,    \* what filter_time(listing, start_date, end_date) returned
    trange,      \* what MMSDownloader.intervals() returned
    refiltered,  \* what filter_time returned for the files in filtered
    vfiles,      \* the files argument of the filter_version call
    vopts,       \* its latest, version and min_version arguments
    vresult,     \* what filter_version returned
    pargs,       \* the arguments of the construct_path call
    paths,       \* what construct_path returned
    pname,       \* the file name given to name2path and filename2path
    npath,       \* what MMSDownloader.name2path returned
    fpaths,      \* what filename2path returned
    desc,        \* the attributes of an MMSDownloader
    last,        \* the last assignment to an attribute of it, or the
                 \* last operation of it and its outcome
    request,     \* the site, information type and data type of a get()
    sess,        \* where that get() stands: its position, the response in
                 \* hand, the attempts made, the requests posted, its result
    disk         \* the files on the local disk

vars == <<args, fnames, parts, listing, start_date, end_date, filtered,
          trange, refiltered, vfiles, vopts, vresult, pargs, paths, pname,
          npath, fpaths, desc, last, request, sess, disk>>

codecVars   == <<args, fnames, parts>>
timeVars    == <<listing, start_date, end_date, filtered, trange,
                 refiltered>>
versionVars == <<vfiles, vopts, vresult>>
pathVars    == <<pargs, paths, pname, npath, fpaths>>
descVars    == <<desc, last>>
responseVars == <<request, sess>>
diskVars    == <<disk>>
netVars     == <<responseVars, diskVars>>

-----------------------------------------------------------------------------
(* Python values *)

None == [t |-> "None"]
Str(s) == [t |-> "str", s |-> s]
List(l) == [t |-> "list", l |-> l]

Ok(v) == [err |-> "none", val |-> v]
Raise(e) == [err |-> e, val |-> <<>>]
NotCalled == [err |-> "not called", val |-> <<>>]

Min2(a, b) == IF a < b THEN a ELSE b
Max2(a, b) == IF a > b THEN a ELSE b

\* A slice bound i of a sequence of length n, as Python clamps it.
SliceIndex(i, n) == IF i < 0 THEN Max2(0, n + i) ELSE Min2(i, n)

\* s[a:b]
Slice(s, a, b) ==
    SubSeq(s, SliceIndex(a, Len(s)) + 1, SliceIndex(b, Len(s)))

\* list.insert(i, x)
Insert(l, i, x) ==
    LET k == SliceIndex(i, Len(l))
    IN  SubSeq(l, 1, k) \o <<x>> \o SubSeq(l, k + 1, Len(l))

\* str.split(sep) for a one-character separator: the pieces between the
\* occurrences of sep, one more piece than there are occurrences
Split(s, sep) ==
    LET at     == {i \in 1..Len(s) : s[i] = sep}
        n      == Cardinality(at)
        Cut(k) == IF k = 0 THEN 0
                  ELSE IF k = n + 1 THEN Len(s) + 1
                  ELSE CHOOSE i \in at : Cardinality({j \in at : j < i}) = k - 1
    IN  [k \in 1..(n + 1) |-> SubSeq(s, Cut(k - 1) + 1, Cut(k) - 1)]

RECURSIVE Join(_, _)
\* sep.join(l)
Join(sep, l) ==
    IF Len(l) = 0 THEN <<>>
    ELSE IF Len(l) = 1 THEN l[1]
    ELSE l[1] \o sep \o Join(sep, Tail(l))

\* os.path.basename(p): what follows the last '/'
basename(p) == LET segs == Split(p, "/") IN segs[Len(segs)]

RECURSIVE Flatten(_)
\* the concatenation of a list of lists
Flatten(ll) == IF Len(ll) = 0 THEN <<>> ELSE Head(ll) \o Flatten(Tail(ll))

Range(s) == {s[i] : i \in 1..Len(s)}

-----------------------------------------------------------------------------
(* The file-name codec *)

US == <<"_">>
CdfExt == <<".", "c", "d", "f">>

\* construct_filename's "convert all to lists": a str becomes a one-element
\* list, a list stays, None stays None.
AsList(x) == IF x.t = "str" THEN List(<<x.s>>) ELSE x

\* The names built with a descriptor segment in every name, empty when
\* optdesc is None
NamesForEmptyDescriptor(sc, instr, mode, level, optdesc, tstart, version) ==
    LET od == IF optdesc.t = "None" THEN << <<>> >> ELSE optdesc.l
    IN  Flatten([a \in 1..Len(sc.l) |->
        Flatten([b \in 1..Len(instr.l) |->
        Flatten([c \in 1..Len(mode.l) |->
        Flatten([d \in 1..Len(level.l) |->
        Flatten([e \in 1..Len(od) |->
        Flatten([f \in 1..Len(tstart.l) |->
                [g \in 1..Len(version.l) |->
                   Join(US, <<sc.l[a], instr.l[b], mode.l[c], level.l[d],
                              od[e], tstart.l[f],
                              <<"v">> \o version.l[g] \o CdfExt>>)]
        ])])])])])])

\* The names construct_filename builds from one value of each field, the
\* descriptor left out when optdesc is None.
NamesFor(sc, instr, mode, level, optdesc, tstart, version) ==
    IF optdesc.t = "None"
    THEN Flatten([a \in 1..Len(sc.l) |->
         Flatten([b \in 1..Len(instr.l) |->
         Flatten([c \in 1..Len(mode.l) |->
         Flatten([d \in 1..Len(level.l) |->
         Flatten([f \in 1..Len(tstart.l) |->
                 [g \in 1..Len(version.l) |->
                    Join(US, <<sc.l[a], instr.l[b], mode.l[c], level.l[d],
                               tstart.l[f],
                               <<"v">> \o version.l[g] \o CdfExt>>)]
         ])])])])])
    ELSE Flatten([a \in 1..Len(sc.l) |->
         Flatten([b \in 1..Len(instr.l) |->
         Flatten([c \in 1..Len(mode.l) |->
         Flatten([d \in 1..Len(level.l) |->
         Flatten([e \in 1..Len(optdesc.l) |->
         Flatten([f \in 1..Len(tstart.l) |->
                 [g \in 1..Len(version.l) |->
                    Join(US, <<sc.l[a], instr.l[b], mode.l[c], level.l[d],
                               optdesc.l[e], tstart.l[f],
                               <<"v">> \o version.l[g] \o CdfExt>>)]
         ])])])])])])

\* The fields the comprehension of construct_filename iterates, outermost
\* first
LoopOrder(sc, instr, mode, level, optdesc, tstart, version) ==
    IF optdesc.t = "None"
    THEN <<sc, instr, mode, level, tstart, version>>
    ELSE <<sc, instr, mode, level, optdesc, tstart, version>>

\* Whether the comprehension comes to iterate a field that is None: the
\* iterable of a for clause is evaluated once per step of the clauses around
\* it, so never when a field before it is an empty list.
IteratesNone(loops) ==
    \E k \in 1..Len(loops) :
        /\ loops[k].t = "None"
        /\ \A j \in 1..(k - 1) : loops[j].t = "list" /\ Len(loops[j].l) > 0

\* construct_filename(sc, instr, mode, level, tstart, version, optdesc).
\* type(sc) == 'tuple' compares a type with a str and is never true, so
\* sc_ids is always sc.  Iterating a field that is None is a TypeError; a
\* None field behind an empty list is never iterated and no name is built.
construct_filename(a) ==
    LET sc      == AsList(a.sc)
        instr   == AsList(a.instr)
        mode    == AsList(a.mode)
        level   == AsList(a.level)
        tstart  == AsList(a.tstart)
        version == AsList(a.version)
        optdesc == AsList(a.optdesc)
        loops   == LoopOrder(sc, instr, mode, level, optdesc, tstart, version)
    IN  IF IteratesNone(loops) THEN Raise("TypeError")
        ELSE IF \E k \in 1..Len(loops) : loops[k].t = "None" THEN Ok(<<>>)
        ELSE Ok(NamesFor(sc, instr, mode, level, optdesc, tstart, version))

\* MMSDownloader.parse_file_name trims only the extension and keeps the "v".
ParseOneKeepingV(file) ==
    LET p0 == Split(basename(file), "_")
        p1 == IF Len(p0) = 6 THEN Insert(p0, -2, <<>>) ELSE p0
    IN  [p1 EXCEPT ![Len(p1)] = Slice(p1[Len(p1)], 0, -4)]

\* One iteration of parse_file_names' loop: split the base name on '_', put
\* an empty descriptor before the last two segments of a 6-segment name, and
\* trim the "v" and the ".cdf" from the last segment.
ParseOne(file) ==
    LET p0 == Split(basename(file), "_")
        p1 == IF Len(p0) = 6 THEN Insert(p0, -2, <<>>) ELSE p0
    IN  [p1 EXCEPT ![Len(p1)] = Slice(p1[Len(p1)], 1, -4)]

\* parse_file_names(fnames) for a list of names
parse_file_names(files) == [i \in 1..Len(files) |-> ParseOne(files[i])]

-----------------------------------------------------------------------------
(* Paths *)

RECURSIVE JoinPath(_, _)
\* os.path.join(path, *rest) of posixpath: a component that starts with '/'
\* replaces what precedes it; a '/' is put before a component unless the
\* path so far is empty or ends with one.
JoinPath(path, rest) ==
    IF Len(rest) = 0 THEN path
    ELSE LET b == Head(rest)
         IN  JoinPath(IF Len(b) > 0 /\ b[1] = "/" THEN b
                      ELSE IF Len(path) = 0 \/ path[Len(path)] = "/"
                      THEN path \o b
                      ELSE path \o <<"/">> \o b,
                      Tail(rest))

\* os.path.join(*components)
os_path_join(components) == JoinPath(Head(components), Tail(components))

\* The glob construct_path appends with files=True; o is the descriptor as
\* a list of no or one segment
FileGlob(s, i, m, l, o, t) ==
    Join(US, <<s, i, m, l>> \o o
             \o <<t \o <<"*">>, <<"v", "*">> \o CdfExt>>)

\* The path of one combination with the directory of every mode ending at
\* the month
PathForMonthOnly(root, s, i, m, l, o, t, files) ==
    os_path_join(<<root, s, i, m, l>> \o o
                 \o <<Slice(t, 0, 4), Slice(t, 4, 6)>>
                 \o (IF files THEN <<FileGlob(s, i, m, l, o, t)>> ELSE <<>>))

\* One element of the comprehensions of construct_path: the directory goes
\* down to the day t[6:8] when m == 'brst' and to the month t[4:6]
\* otherwise, and the glob follows when files is true.
PathFor(root, s, i, m, l, o, t, files) ==
    os_path_join(<<root, s, i, m, l>> \o o
                 \o <<Slice(t, 0, 4), Slice(t, 4, 6)>>
                 \o (IF m = <<"b", "r", "s", "t">>
                     THEN <<Slice(t, 6, 8)>> ELSE <<>>)
                 \o (IF files THEN <<FileGlob(s, i, m, l, o, t)>> ELSE <<>>))

\* construct_path(sc, instr, mode, level, tstart, optdesc, root, files):
\* one path per combination, in the order of the for clauses sc, instr,
\* mode, level, [optdesc], tstart.  As in construct_filename, sc_ids is sc
\* and a None field that comes to be iterated is a TypeError.
construct_path(a) ==
    LET sc      == AsList(a.sc)
        instr   == AsList(a.instr)
        mode    == AsList(a.mode)
        level   == AsList(a.level)
        tstart  == AsList(a.tstart)
        optdesc == AsList(a.optdesc)
        od      == IF optdesc.t = "None" THEN << <<>> >>
                   ELSE [e \in 1..Len(optdesc.l) |-> <<optdesc.l[e]>>]
        loops   == IF optdesc.t = "None"
                   THEN <<sc, instr, mode, level, tstart>>
                   ELSE <<sc, instr, mode, level, optdesc, tstart>>
    IN  IF IteratesNone(loops) THEN Raise("TypeError")
        ELSE IF \E k \in 1..Len(loops) : loops[k].t = "None" THEN Ok(<<>>)
        ELSE Ok(
            Flatten([b \in 1..Len(sc.l) |->
            Flatten([c \in 1..Len(instr.l) |->
            Flatten([d \in 1..Len(mode.l) |->
            Flatten([e \in 1..Len(level.l) |->
            Flatten([f \in 1..Len(od) |->
                    [g \in 1..Len(tstart.l) |->
                       PathFor(a.root, sc.l[b], instr.l[c], mode.l[d],
                               level.l[e], od[f], tstart.l[g], a.files)]
            ])])])])]))

\* MMSDownloader.name2path(filename) of a downloader whose data_root is
\* root: the name is split on '_'; parts[2] of a name with fewer than three
\* segments is an IndexError; the directory is made of the segments before
\* the last two and of the year, the month and, when parts[2] == 'brst',
\* the day of the segment before the last.
name2path(root, filename) ==
    LET p == Split(filename, "_")
        t == p[Len(p) - 1]
    IN  IF Len(p) < 3 THEN Raise("IndexError")
        ELSE Ok(os_path_join(
                 <<root>> \o Slice(p, 0, -2)
                 \o <<Slice(t, 0, 4), Slice(t, 4, 6)>>
                 \o (IF p[3] = <<"b", "r", "s", "t">>
                     THEN <<Slice(t, 6, 8)>> ELSE <<>>)
                 \o <<filename>>))

\* filename2path(fnames, root): the call of parse_filename, a name the
\* module does not define, is a NameError before any path is built.
filename2path(names, root) == Raise("NameError")

-----------------------------------------------------------------------------
(* Dates and times *)

DigitChars == <<"0", "1", "2", "3", "4", "5", "6", "7", "8", "9">>

IsDigit(c) == \E i \in 1..10 : DigitChars[i] = c

DigitValue(c) == (CHOOSE i \in 1..10 : DigitChars[i] = c) - 1

RECURSIVE ToInt(_)
\* int(s) for a string of decimal digits
ToInt(s) ==
    IF Len(s) = 0 THEN 0
    ELSE 10 * ToInt(SubSeq(s, 1, Len(s) - 1)) + DigitValue(s[Len(s)])

RECURSIVE ZeroPadded(_, _)
\* n in decimal, zero-padded to w characters, as '%Y', '%m', '%d' print it
ZeroPadded(n, w) ==
    IF w = 0 THEN <<>>
    ELSE ZeroPadded(n \div 10, w - 1) \o <<DigitChars[(n % 10) + 1]>>

IsLeap(y) == y % 4 = 0 /\ (y % 100 # 0 \/ y % 400 = 0)

DaysInMonth(y, m) ==
    IF m = 2 THEN (IF IsLeap(y) THEN 29 ELSE 28)
    ELSE IF m \in {4, 6, 9, 11} THEN 30 ELSE 31

RECURSIVE DaysBeforeMonth(_, _)
DaysBeforeMonth(y, m) ==
    IF m = 1 THEN 0 ELSE DaysBeforeMonth(y, m - 1) + DaysInMonth(y, m - 1)

DaysBeforeYear(y) ==
    (y - 1) * 365 + ((y - 1) \div 4) - ((y - 1) \div 100) + ((y - 1) \div 400)

\* date(y, m, d).toordinal()
Ordinal(y, m, d) == DaysBeforeYear(y) + DaysBeforeMonth(y, m) + d

\* datetime(y, m, d, hh, mm, ss)
DateTime(y, m, d, hh, mm, ss) ==
    [day |-> Ordinal(y, m, d), sec |-> hh * 3600 + mm * 60 + ss]

AllDigits(s) == \A i \in 1..Len(s) : IsDigit(s[i])

ValidYMD(y, m, d) == y >= 1 /\ m \in 1..12 /\ d >= 1 /\ d <= DaysInMonth(y, m)

\* Whether strptime(s, '%Y%m%d') parses s
IsDateStamp(s) ==
    /\ Len(s) = 8
    /\ AllDigits(s)
    /\ ValidYMD(ToInt(Slice(s, 0, 4)), ToInt(Slice(s, 4, 6)),
                ToInt(Slice(s, 6, 8)))

\* Whether strptime(s, '%Y%m%d%H%M%S') parses s
IsTimeStamp(s) ==
    /\ Len(s) = 14
    /\ AllDigits(s)
    /\ ValidYMD(ToInt(Slice(s, 0, 4)), ToInt(Slice(s, 4, 6)),
                ToInt(Slice(s, 6, 8)))
    /\ ToInt(Slice(s, 8, 10)) <= 23
    /\ ToInt(Slice(s, 10, 12)) <= 59
    /\ ToInt(Slice(s, 12, 14)) <= 59

\* The start time filter_time and intervals read from a name's tstart field:
\* '%Y%m%d' when it has 8 characters, '%Y%m%d%H%M%S' otherwise.
StampOK(s) == IF Len(s) = 8 THEN IsDateStamp(s) ELSE IsTimeStamp(s)

StartOf(s) ==
    IF Len(s) = 8
    THEN DateTime(ToInt(Slice(s, 0, 4)), ToInt(Slice(s, 4, 6)),
                  ToInt(Slice(s, 6, 8)), 0, 0, 0)
    ELSE DateTime(ToInt(Slice(s, 0, 4)), ToInt(Slice(s, 4, 6)),
                  ToInt(Slice(s, 6, 8)), ToInt(Slice(s, 8, 10)),
                  ToInt(Slice(s, 10, 12)), ToInt(Slice(s, 12, 14)))

\* datetime comparison
Before(a, b) == a.day < b.day \/ (a.day = b.day /\ a.sec < b.sec)
NotAfter(a, b) == a = b \/ Before(a, b)

\* t - timedelta(seconds=1)
MinusOneSecond(t) ==
    IF t.sec = 0 THEN [day |-> t.day - 1, sec |-> 86399]
    ELSE [day |-> t.day, sec |-> t.sec - 1]

\* The value __setattr__ stores for start_date and end_date given a str:
\* the first 19 characters as '%Y-%m-%dT%H:%M:%S', else the whole as
\* '%Y-%m-%d'.  When neither parses, the ValueError is built but not raised
\* and the str itself is stored.
IsIsoDateTime(v) ==
    /\ Len(v) = 19
    /\ v[5] = "-" /\ v[8] = "-" /\ v[11] = "T" /\ v[14] = ":" /\ v[17] = ":"
    /\ IsTimeStamp(Slice(v, 0, 4) \o Slice(v, 5, 7) \o Slice(v, 8, 10)
                   \o Slice(v, 11, 13) \o Slice(v, 14, 16) \o Slice(v, 17, 19))

IsIsoDate(v) ==
    /\ Len(v) = 10
    /\ v[5] = "-" /\ v[8] = "-"
    /\ IsDateStamp(Slice(v, 0, 4) \o Slice(v, 5, 7) \o Slice(v, 8, 10))

SetDate(value) ==
    LET v == Slice(value, 0, 19)
    IN  IF IsIsoDateTime(v)
        THEN StartOf(Slice(v, 0, 4) \o Slice(v, 5, 7) \o Slice(v, 8, 10)
                     \o Slice(v, 11, 13) \o Slice(v, 14, 16)
                     \o Slice(v, 17, 19))
        ELSE IF IsIsoDate(value)
        THEN StartOf(Slice(value, 0, 4) \o Slice(value, 5, 7)
                     \o Slice(value, 8, 10))
        ELSE value

\* sunpy.time.TimeRange(a, b), a class of the sunpy library: the range's
\* start and end.  sunpy keeps the earlier of the two times as the start
\* ("if y starts before x, swap"); ordered = FALSE is a release that keeps
\* the pair as given.
TimeRange(a, b, ordered) ==
    IF ordered /\ Before(b, a) THEN [start |-> b, end |-> a]
    ELSE [start |-> a, end |-> b]

-----------------------------------------------------------------------------
(* The attributes of an MMSDownloader *)

public == <<"p", "u", "b", "l", "i", "c">>
private == <<"p", "r", "i", "v", "a", "t", "e">>
sitl == <<"s", "i", "t", "l">>
team == <<"t", "e", "a", "m">>
science == <<"s", "c", "i", "e", "n", "c", "e">>
hk == <<"h", "k">>
ancillary == <<"a", "n", "c", "i", "l", "l", "a", "r", "y">>

\* The attributes __init__ assigns, in the order it assigns them
AttrNames ==
    <<"site", "anc_product", "data_type", "dropbox_root", "end_date",
      "instr", "level", "mirror_root", "mode", "offline", "optdesc", "sc",
      "start_date", "version", "files", "data_root">>

\* object.__setattr__(self, name, value)
Store(self, name, value) == Ok([self EXCEPT ![name] = value])

\* object.__setattr__(self, name, value) after the assignments that gave r
StoreAfter(r, name, value) ==
    IF r.err # "none" THEN r ELSE Store(r.val, name, value)

RECURSIVE setattr(_, _, _)
\* self.name = value after the assignments that gave r, none of which is
\* made once one has raised
Then(r, name, value) ==
    IF r.err # "none" THEN r ELSE setattr(r.val, name, value)

\* An assignment of files that leaves the product selection as it is
KeepSelection(self) == Ok(self)

\* The six assignments of None that an assignment of files makes
ClearSelection(self) ==
    Then(Then(Then(Then(Then(Then(Ok(self),
        "sc", None), "instr", None), "mode", None), "level", None),
        "optdesc", None), "version", None)

\* The site of a level that is always the public one
SiteOfLevelPublic(value) == Str(public)

\* The site an assignment of level assigns: 'public' when the level is in
\* [None, 'l2', 'l3'], 'private' otherwise
SiteOfLevel(value) ==
    IF value.t = "None"
       \/ (value.t = "str" /\ value.s \in {<<"l", "2">>, <<"l", "3">>})
    THEN Str(public)
    ELSE Str(private)

\* The value stored for start_date and end_date: a str that parses as a
\* date or a date and time is converted, anything else is stored as given
DateValue(value) ==
    IF "t" \in DOMAIN value
       /\ value.t = "str"
       /\ (IsIsoDateTime(Slice(value.s, 0, 19)) \/ IsIsoDate(value.s))
    THEN SetDate(value.s)
    ELSE value

\* MMSDownloader.__setattr__(name, value): the attributes of self after
\* the assignment, or the error it raises.  Each self.x = y in its body is
\* again a call of __setattr__.
setattr(self, name, value) ==
    IF name = "anc_product"
    THEN StoreAfter(setattr(self, "data_type", Str(ancillary)), name, value)
    ELSE IF name = "data_type"
    THEN IF value.t = "str" /\ value.s \in {ancillary, hk, science}
         THEN Store(self, name, value)
         ELSE Raise("ValueError")
    ELSE IF name \in {"end_date", "start_date"}
    THEN Store(self, name, DateValue(value))
    ELSE IF name = "files"
    THEN IF value.t # "None"
         THEN StoreAfter(ClearSelection(self), name, value)
         ELSE Store(self, name, value)
    ELSE IF name = "level"
    THEN StoreAfter(setattr(self, "site", SiteOfLevel(value)), name, value)
    ELSE IF name = "site"
    THEN IF value.t = "str" /\ value.s \in {private, team, sitl}
         THEN Store(self, name, Str(sitl))
         ELSE IF value.t = "str" /\ value.s = public
         THEN Store(self, name, Str(public))
         ELSE Raise("ValueError")
    ELSE Store(self, name, value)

RECURSIVE AssignFrom(_, _, _)
\* The assignments of __init__ from the k-th on, given the attributes so
\* far
AssignFrom(r, a, k) ==
    IF k > Len(AttrNames) THEN r
    ELSE AssignFrom(Then(r, AttrNames[k], a[AttrNames[k]]), a, k + 1)

\* MMSDownloader.__init__ with the arguments a, data_root given
Construct(a) ==
    AssignFrom(Ok([n \in Range(AttrNames) |-> None]), a, 1)

-----------------------------------------------------------------------------
(* Requests to the SDC: get() and check_response() *)

\* maxAttempts of check_response
maxAttempts == 3

\* response.ok: the status code is below 400
IsOk(status) == status < 400

\* get() before its request is posted
GetStart ==
    [pc |-> "get", status |-> 0, nAttempts |-> 0, logins |-> 0,
     posted |-> 0, result |-> NotCalled]

\* get() after self._session.post(url, data=self.query()) was answered with
\* status: the response is returned when it is ok and handed to
\* check_response otherwise
get_post(g, status) ==
    IF IsOk(status)
    THEN [g EXCEPT !.pc = "done", !.status = status, !.posted = @ + 1,
                   !.result = Ok(status)]
    ELSE [g EXCEPT !.pc = "check", !.status = status, !.posted = @ + 1]

\* check_response up to its loop: a response with status 200 is returned; a
\* 401 enters the loop with nAttempts = 1; for any other status
\* "raise ConnectionError(r.reason)" reads r, which no branch has assigned:
\* UnboundLocalError.
check_response(g) ==
    IF g.status = 200
    THEN [g EXCEPT !.pc = "done", !.result = Ok(g.status)]
    ELSE IF g.status = 401
    THEN [g EXCEPT !.pc = "loop", !.nAttempts = 1]
    ELSE [g EXCEPT !.pc = "done", !.result = Raise("UnboundLocalError")]

\* One pass of "while nAttempts <= maxAttempts": log in, post the request
\* again, and break when the answer is ok.  Otherwise the pass calls Print,
\* a name that is not defined: NameError, before nAttempts is incremented.
attempt(g, status) ==
    IF IsOk(status)
    THEN [g EXCEPT !.pc = "after", !.status = status, !.logins = @ + 1,
                   !.posted = @ + 1]
    ELSE [g EXCEPT !.pc = "done", !.status = status, !.logins = @ + 1,
                   !.posted = @ + 1, !.result = Raise("NameError")]

\* check_response after its loop: ConnectionError('Failed log-in.') when
\* nAttempts > maxAttempts, else the last response is returned
after_loop(g) ==
    IF g.nAttempts > maxAttempts
    THEN [g EXCEPT !.pc = "done", !.result = Raise("ConnectionError")]
    ELSE [g EXCEPT !.pc = "done", !.result = Ok(g.status)]

-----------------------------------------------------------------------------
(* The time filter and the interval resolver *)

RECURSIVE InsertSorted(_, _, _)
\* k put into the index list l, ordered by key[.], after every index whose
\* key is not greater
InsertSorted(l, k, key) ==
    IF Len(l) = 0 THEN <<k>>
    ELSE IF Before(key[k], key[Head(l)]) THEN <<k>> \o l
    ELSE <<Head(l)>> \o InsertSorted(Tail(l), k, key)

RECURSIVE SortedUpTo(_, _)
\* sorted(range(n), key=lambda k: key[k]): Python's sort is stable
SortedUpTo(n, key) ==
    IF n = 0 THEN <<>>
    ELSE CHOOSE r \in {InsertSorted(l, n, key) :
                          l \in {SortedUpTo(n - 1, key)}} : TRUE

\* [x[i] for i in idx]
Pick(x, idx) == [j \in 1..Len(idx) |-> x[idx[j]]]

\* The elements of a set of indices as a list, in ascending order
Ascending(S) ==
    [k \in 1..Cardinality(S) |->
        CHOOSE i \in S : Cardinality({j \in S : j < i}) = k - 1]

\* The end-date test with the bound exclusive
OnOrBeforeStrict(fstart, end) ==
    Ascending({i \in 1..Len(fstart) : Before(fstart[i], end)})

\* [i for i, t in enumerate(fstart) if t <= end_date]
OnOrBefore(fstart, end) ==
    Ascending({i \in 1..Len(fstart) : NotAfter(fstart[i], end)})

\* The tstart field of a parsed name: name[-2]
TStart(part) == part[Len(part) - 1]

\* [i for i, t in enumerate(fstart) if t >= start_date]
OnOrAfter(fstart, start) ==
    Ascending({i \in 1..Len(fstart) : NotAfter(start, fstart[i])})

\* The start-side selection with the file before idx[0] added even when the
\* file at idx[0] starts at start_date
StartSideAlwaysPredecessor(fstart, start) ==
    LET idx == OnOrAfter(fstart, start)
    IN  IF Len(fstart) = 0 THEN Raise("IndexError")
        ELSE IF Len(idx) = 0 /\ fstart[Len(fstart)].day = start.day
        THEN Ok(<<Len(fstart)>>)
        ELSE IF Len(idx) = 0 THEN Raise("IndexError")
        ELSE IF idx[1] # 1 THEN Ok(<<idx[1] - 1>> \o idx)
        ELSE Ok(idx)

\* The start-side selection with every file before idx[0] kept
StartSideAllPredecessors(fstart, start) ==
    LET idx == OnOrAfter(fstart, start)
    IN  IF Len(fstart) = 0 THEN Raise("IndexError")
        ELSE IF Len(idx) = 0 /\ fstart[Len(fstart)].day = start.day
        THEN Ok(<<Len(fstart)>>)
        ELSE IF Len(idx) = 0 THEN Raise("IndexError")
        ELSE IF idx[1] # 1 /\ fstart[idx[1]] # start
        THEN Ok([i \in 1..Len(fstart) |-> i])
        ELSE Ok(idx)

\* The start-side selection with the file before idx[0] added only when it
\* is not the first file
StartSidePredecessorNotFirst(fstart, start) ==
    LET idx == OnOrAfter(fstart, start)
    IN  IF Len(fstart) = 0 THEN Raise("IndexError")
        ELSE IF Len(idx) = 0 /\ fstart[Len(fstart)].day = start.day
        THEN Ok(<<Len(fstart)>>)
        ELSE IF Len(idx) = 0 THEN Raise("IndexError")
        ELSE IF idx[1] > 2 /\ fstart[idx[1]] # start
        THEN Ok(<<idx[1] - 1>> \o idx)
        ELSE Ok(idx)

\* The start-side selection of filter_time over the sorted start times of
\* the files kept by the end-date test.  idx is the files starting on or
\* after start_date.  Both operands of each "&" are evaluated: fstart[-1] is
\* an IndexError when no file was kept, and idx[0] is an IndexError when idx
\* is empty and the first test failed.  The file before idx[0] is added when
\* idx[0] is not the first file and the file at idx[0] does not start at
\* start_date.  Indices are 1-based here, 0-based in the source.
StartSide(fstart, start) ==
    LET idx == OnOrAfter(fstart, start)
    IN  IF Len(fstart) = 0 THEN Raise("IndexError")
        ELSE IF Len(idx) = 0 /\ fstart[Len(fstart)].day = start.day
        THEN Ok(<<Len(fstart)>>)
        ELSE IF Len(idx) = 0 THEN Raise("IndexError")
        ELSE IF idx[1] # 1 /\ fstart[idx[1]] # start
        THEN Ok(<<idx[1] - 1>> \o idx)
        ELSE Ok(idx)

\* The end of filter_time: of the files kept by the end-date test, those
\* of the start-side selection
FilterKept(files, fstart, start) ==
    CHOOSE r \in {IF sel.err # "none" THEN sel
                  ELSE Ok(Pick(files, sel.val)) :
                     sel \in {StartSide(fstart, start)}} : TRUE

\* filter_time from the sorted files and start times on: the files
\* starting on or before end_date are kept
FilterSorted(files, fstart, start, end) ==
    CHOOSE r \in {FilterKept(Pick(files, idx), Pick(fstart, idx), start) :
                     idx \in {OnOrBefore(fstart, end)}} : TRUE

\* filter_time from the start times of the files on: files and start times
\* are sorted by start time
FilterStarts(names, fstart, start, end) ==
    CHOOSE r \in {FilterSorted(Pick(names, isort), Pick(fstart, isort),
                               start, end) :
                     isort \in {SortedUpTo(Len(fstart), fstart)}} : TRUE

\* filter_time from the parsed names on: the start times are read (a
\* tstart that strptime rejects is a ValueError)
FilterParsed(names, parsed, start, end) ==
    IF \E i \in 1..Len(parsed) : ~StampOK(TStart(parsed[i]))
    THEN Raise("ValueError")
    ELSE CHOOSE r \in
            {FilterStarts(names, fstart, start, end) :
                fstart \in {[i \in 1..Len(parsed) |->
                                StartOf(TStart(parsed[i]))]}} : TRUE

\* filter_time(fnames, start_date, end_date) for a list of names: the names
\* are parsed and their start times read; files and start times are sorted
\* by start time; the files starting on or before end_date are kept; of
\* those, the start-side selection is returned.
filter_time(names, start, end) ==
    CHOOSE r \in {FilterParsed(n[1], n[2], start, end) :
                     n \in {<<fn, parse_file_names(fn)>> :
                               fn \in {names}}} : TRUE

\* The text of the SDC's answer to a file_names request: the names,
\* comma-separated
ResponseText(names) == Join(<<",">>, names)

\* MMSDownloader.file_names(): no file for an empty answer, else the
\* answer split on ',' and filtered by time
file_names(names, start, end) ==
    CHOOSE r \in {IF text = <<>> THEN Ok(<<>>)
                  ELSE filter_time(Split(text, ","), start, end) :
                     text \in {ResponseText(names)}} : TRUE

\* trange[i] of intervals(), given the ranges after it: the range starts at
\* the file's start time and ends at end_date when the file is the last one,
\* else a second before the start of the range after it.
RangeOf(part, rest, end, ordered) ==
    TimeRange(StartOf(part[6]),
              IF Len(rest) = 0 THEN end ELSE MinusOneSecond(rest[1].start),
              ordered)

WithRangeOf(part, rest, end, ordered) ==
    <<RangeOf(part, rest, end, ordered)>> \o rest

RECURSIVE RangesFrom(_, _, _, _)
\* trange[i:] of intervals() (i is 1-based), built from the last file back
RangesFrom(parsed, i, end, ordered) ==
    IF i > Len(parsed) THEN <<>>
    ELSE WithRangeOf(parsed[i], RangesFrom(parsed, i + 1, end, ordered),
                     end, ordered)

\* MMSDownloader.intervals(), given what its call of self.file_names()
\* returned (or raised): one TimeRange per file, built from the last file to
\* the first.
intervals(fn, end, ordered) ==
    IF fn.err # "none" THEN fn
    ELSE Ok(RangesFrom(parse_file_names(fn.val), 1, end, ordered))

-----------------------------------------------------------------------------
(* The version filter *)

\* bool(x) of an argument that is None or a bool
Truthy(x) == x.t = "bool" /\ x.b

\* filter_version(files, latest, version, min_version).
\*   - "version is None and min is None" tests the builtin min, which is
\*     never None: latest is left as passed;
\*   - the ValueError of the mutual-exclusion test is built and not raised;
\*   - the latest branch calls mms_parse_filename, a name the module does
\*     not define: NameError;
\*   - the min_version branch reads versions, which only the latest branch
\*     assigns: UnboundLocalError;
\*   - the version branch, reached when min_version is None, calls
\*     min_version.split: AttributeError;
\*   - otherwise the empty output list is returned.
filter_version(files, latest, version, min_version) ==
    LET latest1 == IF version.t = "None" /\ FALSE
                   THEN [t |-> "bool", b |-> TRUE] ELSE latest
    IN  IF Truthy(latest1) THEN Raise("NameError")
        ELSE IF min_version.t # "None" THEN Raise("UnboundLocalError")
        ELSE IF version.t # "None" THEN Raise("AttributeError")
        ELSE Ok(<<>>)

-----------------------------------------------------------------------------
(* The operations of an MMSDownloader *)

\* The year of a proleptic ordinal
YearOf(day) ==
    CHOOSE y \in (day \div 366)..((day \div 365) + 1) :
        DaysBeforeYear(y) < day /\ day <= DaysBeforeYear(y + 1)

\* The month of the n-th day of year y
MonthOf(y, n) ==
    CHOOSE m \in 1..12 :
        DaysBeforeMonth(y, m) < n /\ n <= DaysBeforeMonth(y, m) + DaysInMonth(y, m)

\* datetime.strftime('%Y%m%d')
strftime(t) ==
    LET y == YearOf(t.day)
        n == t.day - DaysBeforeYear(y)
        m == MonthOf(y, n)
    IN  ZeroPadded(y, 4) \o ZeroPadded(m, 2)
        \o ZeroPadded(n - DaysBeforeMonth(y, m), 2)

\* t + timedelta(days=1)
PlusOneDay(t) == [t EXCEPT !.day = @ + 1]

RECURSIVE DatesFrom(_, _)
\* The dates of local_file_names: "while start_date <= end_date" compares
\* the two datetimes, appends the day of start_date and adds one day
DatesFrom(start, end) ==
    IF NotAfter(start, end)
    THEN <<strftime(start)>> \o DatesFrom(PlusOneDay(start), end)
    ELSE <<>>

\* os.path.dirname(p): what precedes the last '/'
dirname(p) ==
    LET segs == Split(p, "/")
    IN  Join(<<"/">>, SubSeq(segs, 1, Len(segs) - 1))

RECURSIVE MatchPieces(_, _)
\* Whether s is made of anything followed by the first piece, and so on,
\* and ends with the last piece
MatchPieces(pieces, s) ==
    LET p == Head(pieces)
    IN  IF Len(pieces) = 1
        THEN Len(s) >= Len(p) /\ SubSeq(s, Len(s) - Len(p) + 1, Len(s)) = p
        ELSE \E k \in 0..(Len(s) - Len(p)) :
                /\ SubSeq(s, k + 1, k + Len(p)) = p
                /\ MatchPieces(Tail(pieces),
                               SubSeq(s, k + Len(p) + 1, Len(s)))

\* fnmatch of a name against a pattern whose wildcards are '*'
fnmatch(name, pattern) ==
    LET pieces == Split(pattern, "*")
        p      == Head(pieces)
    IN  IF Len(pieces) = 1 THEN name = pattern
        ELSE /\ Len(name) >= Len(p)
             /\ SubSeq(name, 1, Len(p)) = p
             /\ MatchPieces(Tail(pieces), SubSeq(name, Len(p) + 1, Len(name)))

\* The elements of a set of files as a list; the order in which glob lists
\* a directory is the file system's
Listed(S) ==
    CHOOSE l \in [1..Cardinality(S) -> S] :
        \A i, j \in 1..Cardinality(S) : l[i] = l[j] => i = j

\* One pass of the search loop of local_file_names: chdir to the directory
\* of path (no file is found when it does not exist) and glob its base name
GlobIn(dsk, path) ==
    Listed({f \in dsk : /\ dirname(f) = dirname(path)
                        /\ fnmatch(basename(f), basename(path))})

\* MMSDownloader.local_file_names(): the dates of the range, the paths that
\* construct_path builds for them with files=True, and the files on disk
\* that match them
local_file_names(self, dsk) ==
    CHOOSE r \in
        {IF found.err # "none" THEN found
         ELSE Ok(Flatten([k \in 1..Len(found.val) |->
                             GlobIn(dsk, found.val[k])])) :
            found \in
                {construct_path(a) :
                    a \in {[sc |-> self["sc"], instr |-> self["instr"],
                            mode |-> self["mode"], level |-> self["level"],
                            tstart |-> List(DatesFrom(self["start_date"],
                                                      self["end_date"])),
                            optdesc |-> self["optdesc"],
                            root |-> self["data_root"].s,
                            files |-> TRUE]}}} : TRUE

\* MMSDownloader.remote2localnames(remote_names): data_root joined with the
\* '/'-separated components of each name after the first two
remote2localnames(root, remote_names) ==
    [i \in 1..Len(remote_names) |->
        LET c == Split(remote_names[i], "/")
        IN  os_path_join(<<root>> \o Slice(c, 2, Len(c)))]

RECURSIVE RunGet(_, _)
\* get() from the state g on, the SDC answering the requests still to be
\* posted with the statuses ans
RunGet(g, ans) ==
    IF g.pc = "done" THEN g
    ELSE CHOOSE x \in
            {RunGet(h[1], h[2]) :
                h \in {IF g.pc = "get"
                       THEN <<get_post(g, Head(ans)), Tail(ans)>>
                       ELSE IF g.pc = "check"
                       THEN <<check_response(g), ans>>
                       ELSE IF g.pc = "loop" /\ g.nAttempts <= maxAttempts
                       THEN <<attempt(g, Head(ans)), Tail(ans)>>
                       ELSE <<after_loop(g), ans>>}} : TRUE

\* MMSDownloader.get(), the SDC answering with the statuses ans
get(ans) == RunGet(GetStart, ans)

\* The outcome of an operation: what it returned or raised, the requests it
\* posted, whether a request failed, and the attributes and the files on
\* disk it left
Outcome(self, dsk, res, posted, failed) ==
    [self |-> self, disk |-> dsk, res |-> res, posted |-> posted,
     failed |-> failed]

\* The time filter search() applies to a list that is not empty
TimeFiltered(files, self) ==
    IF Len(files) > 0
    THEN filter_time(files, self["start_date"], self["end_date"])
    ELSE Ok(files)

\* file_names() after its get() ended as g
FileNamesAfter(self, srv, dsk, g) ==
    IF g.result.err # "none"
    THEN Outcome(self, dsk, g.result, g.posted, TRUE)
    ELSE Outcome(self, dsk,
                 file_names(srv, self["start_date"], self["end_date"]),
                 g.posted, FALSE)

\* MMSDownloader.file_names(): a get() and the listing it answers, filtered
\* by time
FileNames(self, srv, dsk, ans) ==
    CHOOSE o \in {FileNamesAfter(self, srv, dsk, g) : g \in {get(ans)}} :
        TRUE

\* The end of search(): each list that is not empty is filtered by time
SearchEnd(self, dsk, local_files, remote_files, posted) ==
    CHOOSE o \in
        {Outcome(self, dsk,
                 IF l.err # "none" THEN l
                 ELSE IF r.err # "none" THEN r
                 ELSE Ok([local |-> l.val, remote |-> r.val]),
                 posted, FALSE) :
            l \in {TimeFiltered(local_files, self)},
            r \in {TimeFiltered(remote_files, self)}} : TRUE

\* search() offline, local_file_names() having ended as loc
SearchLocal(self, dsk, loc) ==
    IF loc.err # "none" THEN Outcome(self, dsk, loc, 0, FALSE)
    ELSE SearchEnd(self, dsk, loc.val, <<>>, 0)

\* The split of search(): the local names that are files on disk, and the
\* remote names of the others
SearchSplit(self, dsk, remote, names, posted) ==
    SearchEnd(self, dsk,
              Pick(names,
                   Ascending({i \in 1..Len(names) : names[i] \in dsk})),
              Pick(remote,
                   Ascending({i \in 1..Len(names) : names[i] \notin dsk})),
              posted)

\* search() online, file_names() having ended as fn
SearchRemote(self, dsk, fn) ==
    IF fn.res.err # "none" THEN fn
    ELSE CHOOSE o \in
            {SearchSplit(self, dsk, fn.res.val, names, fn.posted) :
                names \in {remote2localnames(self["data_root"].s,
                                             fn.res.val)}} : TRUE

\* MMSDownloader.search(): offline, the local files of the range; online,
\* the time-filtered listing of the SDC split by whether the local name of
\* a file is a file on disk.  Each list that is not empty is then filtered
\* by time.
search(self, srv, dsk, ans) ==
    IF Truthy(self["offline"])
    THEN CHOOSE o \in {SearchLocal(self, dsk, loc) :
                          loc \in {local_file_names(self, dsk)}} : TRUE
    ELSE CHOOSE o \in {SearchRemote(self, dsk, fn) :
                          fn \in {FileNames(self, srv, dsk, ans)}} : TRUE

\* The keys of the state that downloads() saves, in the order of the dict
StateKeys ==
    <<"sc", "instr", "mode", "level", "optdesc", "version", "files">>

RECURSIVE Restore(_, _, _)
\* "for key in state: self.files = None; setattr(self, key, state[key])"
\* from the k-th key on
Restore(r, state, k) ==
    IF k > Len(StateKeys) THEN r
    ELSE CHOOSE x \in
            {Restore(r1, state, k + 1) :
                r1 \in {Then(Then(r, "files", None),
                             StateKeys[k], state[StateKeys[k]])}} : TRUE

\* The end of the transfers of downloads(), the local names of the files
\* being file: the loop stops at the first name that name2path rejects,
\* which raises outside the try statement, or at the xfer-th file, whose
\* transfer fails (none when xfer = 0): the part written is removed, the
\* saved state is assigned back and the error is raised again.  Otherwise
\* the saved state is assigned back and the local files are returned.
TransfersEnd(self, state, dsk, local_files, file, xfer, posted) ==
    LET bad  == {k \in 1..Len(file) : file[k].err # "none"}
        stop == bad \cup ({xfer} \cap (1..Len(file)))
        at   == IF stop = {} THEN Len(file) + 1
                ELSE CHOOSE k \in stop : \A j \in stop : k <= j
        got  == [k \in 1..(at - 1) |-> file[k].val]
    IN  IF at \in bad
        THEN Outcome(self, dsk \cup Range(got), file[at],
                     posted + at - 1, FALSE)
        ELSE IF at = xfer
        THEN Outcome(Restore(Ok(self), state, 1).val, dsk \cup Range(got),
                     Raise("ConnectionError"), posted + at, TRUE)
        ELSE Outcome(Restore(Ok(self), state, 1).val, dsk \cup Range(got),
                     Ok(local_files \o got), posted + at - 1, FALSE)

\* The transfers of downloads(): the files named by the answer to the
\* file_info request are posted for and written one by one
Transfers(self, state, dsk, local_files, names, xfer, posted) ==
    CHOOSE o \in
        {TransfersEnd(self, state, dsk, local_files, file, xfer, posted) :
            file \in {[k \in 1..Len(names) |->
                          name2path(self["data_root"].s, names[k])]}} :
        TRUE

\* downloads() after files and site were assigned, which left sel, and
\* the get() of file_info() ended as g: file_info() is called outside any
\* try statement
DownloadsSelected(sel, self, dsk, s, g, xfer) ==
    IF g.result.err # "none"
    THEN Outcome(sel, dsk, g.result, s.posted + g.posted, TRUE)
    ELSE Transfers(sel, self, dsk, s.res.val.local, sel["files"].l, xfer,
                   s.posted + g.posted)

\* downloads() after search() ended as s.  search() raising leaves self as
\* it was; offline, the local files are returned.  Else the site and the
\* state are saved, and files is assigned the base names of the remote
\* files and site its saved value.
DownloadsAfter(self, dsk, s, w) ==
    IF s.res.err # "none" THEN s
    ELSE IF Truthy(self["offline"])
    THEN Outcome(self, dsk, Ok(s.res.val.local), s.posted, FALSE)
    ELSE CHOOSE o \in
            {DownloadsSelected(sel, self, dsk, s, g, w.xfer) :
                sel \in {Then(setattr(self, "files",
                                      List([i \in 1..Len(s.res.val.remote)
                                            |-> basename(
                                                  s.res.val.remote[i])])),
                              "site", self["site"]).val},
                g \in {get(w.second)}} : TRUE

\* MMSDownloader.downloads(); w holds the statuses that answer the
\* file_names request and the file_info request, and the transfer that
\* fails
downloads(self, srv, dsk, w) ==
    CHOOSE o \in {DownloadsAfter(self, dsk, s, w) :
                     s \in {search(self, srv, dsk, w.first)}} : TRUE

\* MMSDownloader.set_interval(interval)
set_interval(self, interval) ==
    Then(setattr(self, "start_date", interval.start),
         "end_date", interval.end).val

\* MMSDownloader.get_interval()
get_interval(self, ordered) ==
    TimeRange(self["start_date"], self["end_date"], ordered)

\* "try: file = x[0]; except: file = ''" for an outcome x
FirstOrEmpty(res) ==
    IF res.err # "none" \/ Len(res.val) = 0 THEN <<>> ELSE res.val[1]

\* The end of download(interval) and of fname(interval): the interval
\* saved on entry is set again and the first file, or '', is returned
IntervalEnd(interval_in, x) ==
    Outcome(set_interval(x.self, interval_in), x.disk,
            Ok(FirstOrEmpty(x.res)), x.posted, x.failed)

\* MMSDownloader.download(interval)
download(self, srv, dsk, interval, w) ==
    CHOOSE o \in
        {IntervalEnd(interval_in, d) :
            interval_in \in {get_interval(self, w.ordered)},
            d \in {downloads(s1, srv, dsk, w) :
                      s1 \in {set_interval(self, interval)}}} : TRUE

\* fnames() after file_names() ended as fn
FnamesAfter(fn) ==
    IF fn.res.err # "none" THEN fn
    ELSE [fn EXCEPT !.res = Ok([i \in 1..Len(fn.res.val) |->
                                   basename(fn.res.val[i])])]

\* MMSDownloader.fnames(): the base names of file_names()
fnames_of(self, srv, dsk, ans) ==
    CHOOSE o \in {FnamesAfter(fn) :
                     fn \in {FileNames(self, srv, dsk, ans)}} : TRUE

\* MMSDownloader.fname(interval)
fname(self, srv, dsk, interval, w) ==
    CHOOSE o \in
        {IntervalEnd(interval_in, f) :
            interval_in \in {get_interval(self, w.ordered)},
            f \in {fnames_of(s1, srv, dsk, w.first) :
                      s1 \in {set_interval(self, interval)}}} : TRUE

\* MMSDownloader.local_dir(interval)
local_dir(self, interval) ==
    CHOOSE r \in
        {IF dir.err # "none" THEN dir
         ELSE IF Len(dir.val) = 0 THEN Raise("IndexError")
         ELSE Ok(dir.val[1]) :
            dir \in
                {construct_path(a) :
                    a \in {[sc |-> self["sc"], instr |-> self["instr"],
                            mode |-> self["mode"], level |-> self["level"],
                            tstart |-> Str(strftime(interval.start)),
                            optdesc |-> self["optdesc"],
                            root |-> self["data_root"].s,
                            files |-> FALSE]}}} : TRUE

\* load_local_file(interval) after local_dir(interval) returned dir and
\* fname(interval) ended as f: the file is read by util._load_cdf, which
\* fails when it is not on disk
LoadLocalFileAfter(dsk, dir, f) ==
    Outcome(f.self, dsk,
            IF os_path_join(<<dir, f.res.val>>) \in dsk
            THEN Ok(os_path_join(<<dir, f.res.val>>))
            ELSE Raise("FileNotFoundError"),
            f.posted, f.failed)

\* load_local_file(interval) after local_dir(interval) ended as dir
LoadLocalFileIn(self, srv, dsk, interval, w, dir) ==
    IF dir.err # "none" THEN Outcome(self, dsk, dir, 0, FALSE)
    ELSE CHOOSE o \in
            {LoadLocalFileAfter(dsk, dir.val, f) :
                f \in {fname(self, srv, dsk, interval, w)}} : TRUE

\* MMSDownloader.load_local_file(interval)
load_local_file(self, srv, dsk, interval, w) ==
    CHOOSE o \in
        {LoadLocalFileIn(self, srv, dsk, interval, w, dir) :
            dir \in {local_dir(self, interval)}} : TRUE

\* MMSDownloader.intervals() of a downloader
Ranges(self, srv, dsk, w) ==
    CHOOSE o \in
        {[fn EXCEPT !.res = intervals(fn.res, self["end_date"], w.ordered)] :
            fn \in {FileNames(self, srv, dsk, w.first)}} : TRUE

-----------------------------------------------------------------------------
(* Inputs *)

\* The longest listing and the longest files argument
MaxFiles == 3

mms1 == <<"m", "m", "s", "1">>
mms2 == <<"m", "m", "s", "2">>
fpi == <<"f", "p", "i">>
fast == <<"f", "a", "s", "t">>
brst == <<"b", "r", "s", "t">>
l2 == <<"l", "2">>
dis_moms == <<"d", "i", "s", "-", "m", "o", "m", "s">>
des_moms == <<"d", "e", "s", "-", "m", "o", "m", "s">>
under_scored == <<"d", "i", "s", "_", "m", "o", "m", "s">>
star == <<"*">>

\* date.strftime('%Y%m%d')
DateStamp(y, m, d) ==
    ZeroPadded(y, 4) \o ZeroPadded(m, 2) \o ZeroPadded(d, 2)

\* datetime.strftime('%Y%m%d%H%M%S')
TimeStamp(y, m, d, hh, mm, ss) ==
    DateStamp(y, m, d) \o ZeroPadded(hh, 2) \o ZeroPadded(mm, 2)
    \o ZeroPadded(ss, 2)

\* 'YYYY-MM-DD'
IsoDate(y, m, d) ==
    ZeroPadded(y, 4) \o <<"-">> \o ZeroPadded(m, 2) \o <<"-">>
    \o ZeroPadded(d, 2)

\* 'YYYY-MM-DDThh:mm:ss'
IsoDateTime(y, m, d, hh, mm, ss) ==
    IsoDate(y, m, d) \o <<"T">> \o ZeroPadded(hh, 2) \o <<":">>
    \o ZeroPadded(mm, 2) \o <<":">> \o ZeroPadded(ss, 2)

Version(x, y, z) ==
    ZeroPadded(x, IF x > 9 THEN 2 ELSE 1) \o <<".">> \o ZeroPadded(y, 1)
    \o <<".">> \o ZeroPadded(z, 1)

\* The name of the mms1 fpi fast l2 file of a descriptor (None or a Str),
\* a start stamp and a version
FileName(optdesc, tstart, version) ==
    construct_filename([sc |-> Str(mms1), instr |-> Str(fpi),
                        mode |-> Str(fast), level |-> Str(l2),
                        optdesc |-> optdesc, tstart |-> Str(tstart),
                        version |-> Str(version)]).val[1]

\* The injective sequences of at most n elements of S
RECURSIVE ListsOver(_, _)
ListsOver(S, n) ==
    IF n = 0 THEN {<<>>}
    ELSE LET shorter == ListsOver(S, n - 1)
         IN  shorter \cup {Append(l, x) : l \in shorter, x \in S}

DistinctLists(S, n) ==
    {l \in ListsOver(S, n) : \A i, j \in 1..Len(l) : l[i] = l[j] => i = j}

CodecArgs ==
    [sc      : {Str(mms1), List(<<mms1, mms2>>), List(<<>>)},
     instr   : {Str(fpi), None},
     mode    : {Str(fast), Str(brst)},
     level   : {Str(l2)},
     optdesc : {None, Str(<<>>), Str(dis_moms), Str(under_scored),
                List(<<dis_moms, des_moms>>)},
     tstart  : {Str(DateStamp(2019, 1, 1)),
                Str(TimeStamp(2019, 1, 1, 12, 0, 0)), Str(star)},
     version : {Str(Version(1, 0, 0)), Str(Version(10, 0, 0)), Str(star)}]

\* Files of one product starting on three consecutive days and at noon of
\* the second, and a file of a second product starting with the second day
TimeNames ==
    {FileName(None, DateStamp(2018, 12, 31), Version(1, 0, 0)),
     FileName(None, DateStamp(2019, 1, 1), Version(1, 0, 0)),
     FileName(None, DateStamp(2019, 1, 2), Version(1, 0, 0)),
     FileName(None, TimeStamp(2019, 1, 1, 12, 0, 0), Version(1, 0, 0)),
     FileName(Str(des_moms), DateStamp(2019, 1, 1), Version(1, 0, 0))}

StartDateArgs ==
    {IsoDate(2018, 12, 31), IsoDate(2019, 1, 1),
     IsoDateTime(2019, 1, 1, 12, 0, 0), IsoDate(2019, 1, 3)}

EndDateArgs ==
    {IsoDate(2018, 12, 30), IsoDateTime(2019, 1, 1, 12, 0, 0),
     IsoDate(2019, 1, 3)}

VersionNames ==
    {FileName(None, DateStamp(2019, 1, 1), Version(9, 9, 9)),
     FileName(None, DateStamp(2019, 1, 1), Version(10, 0, 0)),
     FileName(None, DateStamp(2019, 1, 1), Version(1, 2, 0)),
     FileName(Str(des_moms), DateStamp(2019, 1, 1), Version(1, 2, 0))}

VersionArgs == {None, Str(Version(1, 2, 0)), Str(Version(10, 0, 0))}

LatestArgs == {None, [t |-> "bool", b |-> TRUE], [t |-> "bool", b |-> FALSE]}

data == <<"/", "d", "a", "t", "a">>

PathArgs ==
    [sc      : {Str(mms1), List(<<mms1, mms2>>)},
     instr   : {Str(fpi)},
     mode    : {Str(fast), Str(brst), List(<<fast, brst>>)},
     level   : {Str(l2)},
     tstart  : {Str(DateStamp(2019, 1, 1)),
                Str(TimeStamp(2019, 1, 1, 12, 0, 0))},
     optdesc : {None, Str(dis_moms), List(<<dis_moms, des_moms>>)},
     root    : {<<>>, data},
     files   : BOOLEAN]

\* Survey and burst file names, with and without a descriptor
PathNames ==
    Range(construct_filename(
              [sc |-> Str(mms1), instr |-> Str(fpi),
               mode |-> List(<<fast, brst>>), level |-> Str(l2),
               optdesc |-> None,
               tstart |-> List(<<DateStamp(2019, 1, 1),
                                 TimeStamp(2019, 1, 1, 12, 0, 0)>>),
               version |-> Str(Version(1, 0, 0))]).val)
    \cup
    Range(construct_filename(
              [sc |-> Str(mms1), instr |-> Str(fpi),
               mode |-> List(<<fast, brst>>), level |-> Str(l2),
               optdesc |-> Str(dis_moms),
               tstart |-> List(<<DateStamp(2019, 1, 1),
                                 TimeStamp(2019, 1, 1, 12, 0, 0)>>),
               version |-> Str(Version(1, 0, 0))]).val)

l1a == <<"l", "1", "a">>
l3 == <<"l", "3">>
bogus == <<"?">>

True == [t |-> "bool", b |-> TRUE]
False == [t |-> "bool", b |-> FALSE]

\* The arguments of MMSDownloader(...): a product of mms1 fpi fast is
\* selected, at a public level, a team level or none, with or without an
\* explicit file
InitArgs ==
    {[n \in Range(AttrNames) |->
        CASE n = "site" -> st
          [] n = "anc_product" -> anc
          [] n = "data_type" -> dt
          [] n = "level" -> lv
          [] n = "files" -> fl
          [] n = "sc" -> Str(mms1)
          [] n = "instr" -> Str(fpi)
          [] n = "mode" -> Str(fast)
          [] n = "optdesc" -> Str(dis_moms)
          [] n = "version" -> Str(Version(1, 0, 0))
          [] n = "start_date" -> Str(IsoDate(2019, 1, 1))
          [] n = "end_date" -> Str(IsoDateTime(2019, 1, 1, 12, 0, 0))
          [] n = "offline" -> False
          [] n = "data_root" -> Str(data)
          [] OTHER -> None] :
     st \in {Str(public), Str(private)},
     anc \in {None, True},
     dt \in {Str(science), Str(hk)},
     lv \in {None, Str(l2), Str(l1a)},
     fl \in {None,
             Str(FileName(None, DateStamp(2019, 1, 1), Version(1, 0, 0)))}}

\* The attributes assigned after construction
SetNames == {"sc", "level", "files", "site", "anc_product", "data_type"}

\* and the values they are given
AttrValues(name) ==
    CASE name = "sc" -> {None, Str(mms1)}
      [] name = "level" -> {None, Str(l2), Str(l3), Str(l1a)}
      [] name = "files" ->
            {None,
             Str(FileName(None, DateStamp(2019, 1, 1), Version(1, 0, 0)))}
      [] name = "site" -> {Str(public), Str(team), Str(bogus)}
      [] name = "anc_product" -> {True, False}
      [] name = "data_type" -> {Str(hk), Str(bogus)}

\* The status codes the SDC answers with
Statuses == {200, 401, 404}

\* What a request is for: the site, the information and the data type of
\* its URL
Requests ==
    [site      : {"public", "sitl"},
     info_type : {"download", "file_names", "file_info", "version_info"},
     data_type : {"science", "hk", "ancillary"}]

\* The statuses that answer the requests of one get(): ok at once, ok
\* after a log-in, and a log-in that is refused
Answers == {<<200>>, <<401, 200>>, <<401, 401>>}

\* What the collaborators of one operation do: the statuses that answer its
\* first and its second get(), the transfer that fails (0: none), and
\* whether sunpy's TimeRange orders its endpoints
World(a, b, x, o) == [first |-> a, second |-> b, xfer |-> x, ordered |-> o]

mms_data == <<"m", "m", "s", "/", "d", "a", "t", "a">>

\* The name under which the SDC lists a file, and the local name of the
\* file under data_root
SdcName(name) == name2path(mms_data, name).val
LocalName(name) == name2path(data, name).val

\* The daily files of mms1 fpi fast l2 of three days
Daily ==
    [d \in {<<2018, 12, 31>>, <<2019, 1, 1>>, <<2019, 1, 2>>} |->
        FileName(None, DateStamp(d[1], d[2], d[3]), Version(1, 0, 0))]

\* The listings of the SDC
Listings ==
    {<<>>,
     <<SdcName(Daily[<<2019, 1, 1>>])>>,
     <<SdcName(Daily[<<2018, 12, 31>>]), SdcName(Daily[<<2019, 1, 2>>])>>,
     <<SdcName(Daily[<<2018, 12, 31>>]), SdcName(Daily[<<2019, 1, 1>>]),
       SdcName(Daily[<<2019, 1, 2>>])>>}

\* The files on disk before the first operation
Disks ==
    {{}, {LocalName(Daily[<<2018, 12, 31>>])},
     {LocalName(Daily[<<2019, 1, 2>>])}}

\* The arguments of the downloader of mms1 fpi fast l2, online or offline,
\* over a range that ends on its first day or two days later
DownloaderArgs ==
    {[n \in Range(AttrNames) |->
        CASE n = "site" -> Str(public)
          [] n = "data_type" -> Str(science)
          [] n = "level" -> Str(l2)
          [] n = "sc" -> Str(mms1)
          [] n = "instr" -> Str(fpi)
          [] n = "mode" -> Str(fast)
          [] n = "start_date" -> Str(sd)
          [] n = "end_date" -> Str(ed)
          [] n = "offline" -> off
          [] n = "data_root" -> Str(data)
          [] OTHER -> None] :
     sd \in {IsoDate(2019, 1, 1), IsoDateTime(2019, 1, 1, 12, 0, 0)},
     ed \in {IsoDateTime(2019, 1, 1, 6, 0, 0), IsoDate(2019, 1, 3)},
     off \in {True, False}}

\* The intervals of intervals() for the files fn, each with its file
IntervalsFrom(fn, r) ==
    IF r.err # "none" THEN {}
    ELSE {[interval |-> r.val[i], src |-> Str(fn.val[i])] :
             i \in 1..Len(r.val)}

\* An interval that is given to an operation, and the listed file it was
\* derived from: each interval of intervals(), and the first of the days
IntervalArgs(self, srv, dsk) ==
    {[interval |-> TimeRange(DateTime(2019, 1, 1, 0, 0, 0),
                             DateTime(2019, 1, 2, 0, 0, 0), TRUE),
      src |-> None]}
    \cup UNION {UNION {IntervalsFrom(fn, r) :
                          r \in {intervals(fn, self["end_date"], TRUE)}} :
                   fn \in {FileNames(self, srv, dsk, <<200>>).res}}

-----------------------------------------------------------------------------
(* The variables of the specifications that do not use them *)

ResponseIdle == request = None /\ sess = None

DiskIdle == disk = {}

NetIdle == ResponseIdle /\ DiskIdle

-----------------------------------------------------------------------------
(* The codec: construct_filename, then parse_file_names on its result *)

InitCodec ==
    /\ args \in CodecArgs
    /\ fnames = NotCalled
    /\ parts = NotCalled
    /\ listing = <<>>
    /\ start_date = None
    /\ end_date = None
    /\ filtered = NotCalled
    /\ trange = NotCalled
    /\ refiltered = NotCalled
    /\ vfiles = <<>>
    /\ vopts = None
    /\ vresult = NotCalled
    /\ pargs = None
    /\ paths = NotCalled
    /\ pname = <<>>
    /\ npath = NotCalled
    /\ fpaths = NotCalled
    /\ desc = None
    /\ last = None
    /\ NetIdle

ConstructFilename ==
    /\ fnames' = construct_filename(args)
    /\ parts' = NotCalled
    /\ UNCHANGED <<args, timeVars, versionVars, pathVars,
                   descVars, netVars>>

ParseFileNames ==
    /\ fnames.err = "none"
    /\ parts' = Ok(parse_file_names(fnames.val))
    /\ UNCHANGED <<args, fnames, timeVars, versionVars, pathVars,
                   descVars, netVars>>

NextCodec == ConstructFilename \/ ParseFileNames

SpecCodec == InitCodec /\ [][NextCodec]_vars

-----------------------------------------------------------------------------
(* The time filter and the intervals of a downloader *)

InitTime ==
    /\ listing \in DistinctLists(TimeNames, MaxFiles)
    /\ start_date \in {SetDate(v) : v \in StartDateArgs}
    /\ end_date \in {SetDate(v) : v \in EndDateArgs}
    /\ filtered = NotCalled
    /\ trange = NotCalled
    /\ refiltered = NotCalled
    /\ args = None
    /\ fnames = NotCalled
    /\ parts = NotCalled
    /\ vfiles = <<>>
    /\ vopts = None
    /\ vresult = NotCalled
    /\ pargs = None
    /\ paths = NotCalled
    /\ pname = <<>>
    /\ npath = NotCalled
    /\ fpaths = NotCalled
    /\ desc = None
    /\ last = None
    /\ NetIdle

FilterTime ==
    /\ filtered' = filter_time(listing, start_date, end_date)
    /\ refiltered' = NotCalled
    /\ UNCHANGED <<listing, start_date, end_date, trange, codecVars,
                   versionVars, pathVars,
                   descVars, netVars>>

\* filter_time called, with the same range, on the files a call of
\* filter_time returned
FilterAgain ==
    /\ filtered.err = "none"
    /\ Len(filtered.val) > 0
    /\ refiltered' = filter_time(filtered.val, start_date, end_date)
    /\ UNCHANGED <<listing, start_date, end_date, filtered, trange,
                   codecVars, versionVars, pathVars,
                   descVars, netVars>>

Intervals ==
    /\ \E fn \in {file_names(listing, start_date, end_date)},
          ordered \in BOOLEAN :
          trange' = intervals(fn, end_date, ordered)
    /\ UNCHANGED <<listing, start_date, end_date, filtered, refiltered,
                   codecVars, versionVars, pathVars,
                   descVars, netVars>>

NextTime == FilterTime \/ FilterAgain \/ Intervals

SpecTime == InitTime /\ [][NextTime]_vars

-----------------------------------------------------------------------------
(* The version filter *)

InitVersion ==
    /\ vfiles \in DistinctLists(VersionNames, MaxFiles)
    /\ vopts \in [latest : LatestArgs, version : VersionArgs,
                  min_version : VersionArgs]
    /\ vresult = NotCalled
    /\ args = None
    /\ fnames = NotCalled
    /\ parts = NotCalled
    /\ listing = <<>>
    /\ start_date = None
    /\ end_date = None
    /\ filtered = NotCalled
    /\ trange = NotCalled
    /\ refiltered = NotCalled
    /\ pargs = None
    /\ paths = NotCalled
    /\ pname = <<>>
    /\ npath = NotCalled
    /\ fpaths = NotCalled
    /\ desc = None
    /\ last = None
    /\ NetIdle

FilterVersion ==
    /\ vresult' = filter_version(vfiles, vopts.latest, vopts.version,
                                 vopts.min_version)
    /\ UNCHANGED <<vfiles, vopts, codecVars, timeVars, pathVars,
                   descVars, netVars>>

NextVersion == FilterVersion

SpecVersion == InitVersion /\ [][NextVersion]_vars

-----------------------------------------------------------------------------
(* Paths: construct_path, name2path and filename2path *)

InitPath ==
    /\ pargs \in PathArgs
    /\ paths = NotCalled
    /\ pname \in PathNames
    /\ npath = NotCalled
    /\ fpaths = NotCalled
    /\ desc = None
    /\ last = None
    /\ NetIdle
    /\ args = None
    /\ fnames = NotCalled
    /\ parts = NotCalled
    /\ listing = <<>>
    /\ start_date = None
    /\ end_date = None
    /\ filtered = NotCalled
    /\ trange = NotCalled
    /\ refiltered = NotCalled
    /\ vfiles = <<>>
    /\ vopts = None
    /\ vresult = NotCalled

ConstructPath ==
    /\ paths' = construct_path(pargs)
    /\ UNCHANGED <<pargs, pname, npath, fpaths, codecVars, timeVars,
                   versionVars, descVars, netVars>>

Name2Path ==
    /\ npath' = name2path(pargs.root, pname)
    /\ UNCHANGED <<pargs, paths, pname, fpaths, codecVars, timeVars,
                   versionVars, descVars, netVars>>

Filename2Path ==
    /\ fpaths' = filename2path(pname, pargs.root)
    /\ UNCHANGED <<pargs, paths, pname, npath, codecVars, timeVars,
                   versionVars, descVars, netVars>>

NextPath == ConstructPath \/ Name2Path \/ Filename2Path

SpecPath == InitPath /\ [][NextPath]_vars

-----------------------------------------------------------------------------
(* The attributes of a downloader: construction, then assignments *)

InitDescriptor ==
    /\ desc \in {Construct(a).val : a \in InitArgs}
    /\ last = [name |-> "__init__", value |-> None, err |-> "none",
               before |-> desc]
    /\ args = None
    /\ fnames = NotCalled
    /\ parts = NotCalled
    /\ listing = <<>>
    /\ start_date = None
    /\ end_date = None
    /\ filtered = NotCalled
    /\ trange = NotCalled
    /\ refiltered = NotCalled
    /\ vfiles = <<>>
    /\ vopts = None
    /\ vresult = NotCalled
    /\ pargs = None
    /\ paths = NotCalled
    /\ pname = <<>>
    /\ npath = NotCalled
    /\ fpaths = NotCalled
    /\ NetIdle

\* obj.name = value; an assignment that raises leaves the attributes as
\* the assignments made before the raise left them
SetAttr ==
    /\ \E name \in SetNames : \E value \in AttrValues(name) :
          \E r \in {setattr(desc, name, value)} :
              /\ desc' = IF r.err = "none" THEN r.val ELSE desc
              /\ last' = [name |-> name, value |-> value, err |-> r.err,
                          before |-> desc]
    /\ UNCHANGED <<codecVars, timeVars, versionVars, pathVars, netVars>>

NextDescriptor == SetAttr

SpecDescriptor == InitDescriptor /\ [][NextDescriptor]_vars

-----------------------------------------------------------------------------
(* One get(): the request, then check_response when the answer is not ok *)

InitResponse ==
    /\ request \in Requests
    /\ sess = GetStart
    /\ args = None
    /\ fnames = NotCalled
    /\ parts = NotCalled
    /\ listing = <<>>
    /\ start_date = None
    /\ end_date = None
    /\ filtered = NotCalled
    /\ trange = NotCalled
    /\ refiltered = NotCalled
    /\ vfiles = <<>>
    /\ vopts = None
    /\ vresult = NotCalled
    /\ pargs = None
    /\ paths = NotCalled
    /\ pname = <<>>
    /\ npath = NotCalled
    /\ fpaths = NotCalled
    /\ desc = None
    /\ last = None
    /\ DiskIdle

OtherVars ==
    <<codecVars, timeVars, versionVars, pathVars, descVars, diskVars>>

GetPost ==
    /\ sess.pc = "get"
    /\ \E status \in Statuses : sess' = get_post(sess, status)
    /\ UNCHANGED <<request, OtherVars>>

CheckResponse ==
    /\ sess.pc = "check"
    /\ sess' = check_response(sess)
    /\ UNCHANGED <<request, OtherVars>>

Attempt ==
    /\ sess.pc = "loop"
    /\ sess.nAttempts <= maxAttempts
    /\ \E status \in Statuses : sess' = attempt(sess, status)
    /\ UNCHANGED <<request, OtherVars>>

AfterLoop ==
    /\ \/ sess.pc = "after"
       \/ sess.pc = "loop" /\ sess.nAttempts > maxAttempts
    /\ sess' = after_loop(sess)
    /\ UNCHANGED <<request, OtherVars>>

NextResponse == GetPost \/ CheckResponse \/ Attempt \/ AfterLoop

SpecResponse == InitResponse /\ [][NextResponse]_vars

-----------------------------------------------------------------------------
(* The operations of a downloader, one after the other *)

InitDownloader ==
    /\ \E a \in DownloaderArgs : desc = Construct(a).val
    /\ listing \in Listings
    /\ disk \in Disks
    /\ last = [name |-> "__init__", res |-> NotCalled, posted |-> 0,
               failed |-> FALSE, before |-> desc, interval |-> None,
               src |-> None, dates |-> <<>>]
    /\ args = None
    /\ fnames = NotCalled
    /\ parts = NotCalled
    /\ start_date = None
    /\ end_date = None
    /\ filtered = NotCalled
    /\ trange = NotCalled
    /\ refiltered = NotCalled
    /\ vfiles = <<>>
    /\ vopts = None
    /\ vresult = NotCalled
    /\ pargs = None
    /\ paths = NotCalled
    /\ pname = <<>>
    /\ npath = NotCalled
    /\ fpaths = NotCalled
    /\ ResponseIdle

DownloaderFrame ==
    <<codecVars, listing, start_date, end_date, filtered, trange,
      refiltered, versionVars, pathVars, responseVars>>

\* The state after the operation name with the outcome o
Finish(name, o, interval, src, dates) ==
    /\ desc' = o.self
    /\ disk' = o.disk
    /\ last' = [name |-> name, res |-> o.res, posted |-> o.posted,
                failed |-> o.failed, before |-> desc,
                interval |-> interval, src |-> src, dates |-> dates]
    /\ UNCHANGED DownloaderFrame

\* A downloader as constructed
Constructed == last.name = "__init__"

\* A downloader on which no operation has run yet
Fresh == last.name \in {"__init__", "site"}

\* self.site = 'team' on a downloader as constructed
SetSite ==
    /\ Constructed
    /\ \E value \in {Str(team)} :
        \E o \in {Outcome(setattr(desc, "site", value).val, disk,
                          Ok(value), 0, FALSE)} :
            Finish("site", o, None, None, <<>>)

LocalFileNames ==
    /\ Fresh
    /\ \E o \in {Outcome(desc, disk, local_file_names(desc, disk), 0, FALSE)} :
        Finish("local_file_names", o, None, None,
               DatesFrom(desc["start_date"], desc["end_date"]))

Search ==
    /\ Fresh
    /\ \E a \in Answers :
        \E o \in {search(desc, listing, disk, a)} :
            Finish("search", o, None, None, <<>>)

Downloads ==
    /\ Fresh
    /\ \E a \in Answers, b \in Answers, x \in 0..1 :
        \E o \in {downloads(desc, listing, disk, World(a, b, x, TRUE))} :
            Finish("downloads", o, None, None, <<>>)

Download ==
    /\ Fresh
    /\ \E c \in IntervalArgs(desc, listing, disk) :
        \E a \in Answers, b \in Answers, x \in 0..1, ordered \in BOOLEAN :
            \E o \in {download(desc, listing, disk, c.interval,
                               World(a, b, x, ordered))} :
                Finish("download", o, c.interval, c.src, <<>>)

Fname ==
    /\ Fresh
    /\ \E c \in IntervalArgs(desc, listing, disk) :
        \E a \in Answers, ordered \in BOOLEAN :
            \E o \in {fname(desc, listing, disk, c.interval,
                            World(a, a, 0, ordered))} :
                Finish("fname", o, c.interval, c.src, <<>>)

Fnames ==
    /\ Fresh
    /\ \E a \in Answers :
        \E o \in {fnames_of(desc, listing, disk, a)} :
            Finish("fnames", o, None, None, <<>>)

IntervalsOf ==
    /\ Fresh
    /\ \E a \in Answers, ordered \in BOOLEAN :
        \E o \in {Ranges(desc, listing, disk, World(a, a, 0, ordered))} :
            Finish("intervals", o, None, None, <<>>)

LoadLocalFile ==
    /\ Fresh
    /\ \E c \in IntervalArgs(desc, listing, disk) :
        \E a \in Answers, ordered \in BOOLEAN :
            \E o \in {load_local_file(desc, listing, disk, c.interval,
                                      World(a, a, 0, ordered))} :
                Finish("load_local_file", o, c.interval, c.src, <<>>)

NextDownloader ==
    \/ SetSite
    \/ LocalFileNames
    \/ Search
    \/ Downloads
    \/ Download
    \/ Fname
    \/ Fnames
    \/ IntervalsOf
    \/ LoadLocalFile

SpecDownloader == InitDownloader /\ [][NextDownloader]_vars

-----------------------------------------------------------------------------
(* Properties *)

\* The strings a field holds
Values(x) == IF x.t = "None" THEN {} ELSE Range(AsList(x).l)

\* A valid component tuple: every required field is given, and no component
\* holds the delimiter '_' or a path separator
ValidArgs(a) ==
    /\ \A x \in {a.sc, a.instr, a.mode, a.level, a.tstart, a.version} :
          x.t # "None"
    /\ \A x \in {a.sc, a.instr, a.mode, a.level, a.tstart, a.version,
                 a.optdesc} :
          \A v \in Values(x) : \A i \in 1..Len(v) : v[i] \notin {"_", "/"}

\* The component tuples of the names asked for, the descriptor the empty
\* string when it is omitted
ComponentTuples(a) ==
    {<<s, i, m, l, o, t, v>> :
        s \in Values(a.sc), i \in Values(a.instr), m \in Values(a.mode),
        l \in Values(a.level),
        o \in (IF a.optdesc.t = "None" THEN {<<>>} ELSE Values(a.optdesc)),
        t \in Values(a.tstart), v \in Values(a.version)}

\* C1: parsing the names construct_filename built from a valid component
\* tuple gives back exactly the seven components of each name, the
\* descriptor as the empty string when it was omitted.
C1_RoundTrip ==
    (parts.err = "none" /\ ValidArgs(args)) =>
        /\ Range(parts.val) = ComponentTuples(args)
        /\ Len(parts.val) = Cardinality(ComponentTuples(args))
        /\ \A k \in 1..Len(parts.val) : Len(parts.val[k]) = 7

C1_Witness ==
    /\ parts.err = "none"
    /\ ValidArgs(args)
    /\ args.optdesc.t = "None"
    /\ args.sc.t = "str"
    /\ parts.val = << <<args.sc.s, args.instr.s, args.mode.s, args.level.s,
                        <<>>, args.tstart.s, args.version.s>> >>

\* C2: in the list intervals() returns, every interval but the last ends
\* one second before the start of the next, and the last ends at end_date.
C2_Contiguous ==
    trange.err = "none" =>
        /\ \A i \in 1..(Len(trange.val) - 1) :
              trange.val[i].end = MinusOneSecond(trange.val[i + 1].start)
        /\ Len(trange.val) > 0 => trange.val[Len(trange.val)].end = end_date

\* C3: intervals() returns one interval per file of the time-filtered
\* listing, in ascending start order, each with start <= end and each
\* ending before the next starts.
C3_WellFormed ==
    trange.err = "none" =>
        /\ Len(trange.val) = Len(file_names(listing, start_date, end_date).val)
        /\ \A i \in 1..Len(trange.val) :
              NotAfter(trange.val[i].start, trange.val[i].end)
        /\ \A i \in 1..(Len(trange.val) - 1) :
              /\ Before(trange.val[i].end, trange.val[i + 1].start)
              /\ NotAfter(trange.val[i].start, trange.val[i + 1].start)

\* The logical file type of a name: its components but start time and
\* version
KeyOf(name) == SubSeq(ParseOne(name), 1, 5)

\* The version X.Y.Z of a version string, as three integers
VersionTriple(v) ==
    LET p == Split(v, ".") IN <<ToInt(p[1]), ToInt(p[2]), ToInt(p[3])>>

VersionOf(name) == VersionTriple(ParseOne(name)[7])

\* a >= b, major first, then minor, then incremental
VersionGE(a, b) ==
    \/ a[1] > b[1]
    \/ a[1] = b[1] /\ a[2] > b[2]
    \/ a[1] = b[1] /\ a[2] = b[2] /\ a[3] >= b[3]

Called == vresult # NotCalled

\* C4: with latest=True, filter_version returns exactly one file per
\* logical file type, of a version >= that of every candidate of the type,
\* compared as integers.
C4_LatestPerKey ==
    (Called /\ Truthy(vopts.latest) /\ vopts.version.t = "None"
            /\ vopts.min_version.t = "None") =>
        /\ vresult.err = "none"
        /\ Range(vresult.val) \subseteq Range(vfiles)
        /\ \A f \in Range(vfiles) :
              Cardinality({i \in 1..Len(vresult.val) :
                              KeyOf(vresult.val[i]) = KeyOf(f)}) = 1
        /\ \A r \in Range(vresult.val) : \A f \in Range(vfiles) :
              KeyOf(f) = KeyOf(r) => VersionGE(VersionOf(r), VersionOf(f))

\* C5: called with none of latest, version and min_version, filter_version
\* gives what the same call with latest=True gives.
C5_LatestIsDefault ==
    (Called /\ vopts.latest.t = "None" /\ vopts.version.t = "None"
            /\ vopts.min_version.t = "None") =>
        vresult = filter_version(vfiles, [t |-> "bool", b |-> TRUE],
                                 vopts.version, vopts.min_version)

\* C6: with an exact version, filter_version returns the files of that
\* version, compared number by number, and raises nothing.
C6_ExactVersion ==
    (Called /\ vopts.version.t = "str" /\ vopts.latest.t = "None"
            /\ vopts.min_version.t = "None") =>
        LET Same(f) == VersionOf(f) = VersionTriple(vopts.version.s)
        IN  vresult = Ok(SelectSeq(vfiles, Same))

\* C7: with min_version, filter_version returns the files whose version is
\* >= the minimum as an integer triple, and raises nothing.
C7_MinVersion ==
    (Called /\ vopts.min_version.t = "str" /\ vopts.latest.t = "None"
            /\ vopts.version.t = "None") =>
        LET AtLeast(f) ==
                VersionGE(VersionOf(f), VersionTriple(vopts.min_version.s))
        IN  vresult = Ok(SelectSeq(vfiles, AtLeast))

\* How many of latest, version and min_version the call gives
Requested ==
    (IF vopts.latest.t # "None" THEN 1 ELSE 0)
    + (IF vopts.version.t # "None" THEN 1 ELSE 0)
    + (IF vopts.min_version.t # "None" THEN 1 ELSE 0)

\* C8: filter_version raises the mutual-exclusion error (the ValueError of
\* "latest, version, and min are mutually exclusive") exactly when more than
\* one of latest, version and min_version is given.
C8_ConflictingFilters ==
    Called => (vresult.err = "ValueError" <=> Requested > 1)

\* The start time filter_time reads from a name
NameStart(name) == StartOf(TStart(ParseOne(name)))

InRange(f) ==
    NotAfter(start_date, NameStart(f)) /\ NotAfter(NameStart(f), end_date)

Early(f) == Before(NameStart(f), start_date)

\* filter_time returned, and some file of the listing starts on or after
\* start_date and on or before end_date
StartSideCase ==
    filtered.err = "none" /\ \E f \in Range(listing) : InRange(f)

\* C9: when some file starts within [start_date, end_date], filter_time
\* returns every such file, in start order, and before them at most one
\* other file: the one that starts last before start_date, returned exactly
\* when there is a file before start_date and no file starts at start_date.
C9_StartSide ==
    StartSideCase =>
        LET r == filtered.val
            extra == {i \in 1..Len(r) : ~InRange(r[i])}
        IN  /\ Range(r) \subseteq Range(listing)
            /\ Len(r) = Cardinality(Range(r))
            /\ \A f \in Range(listing) : InRange(f) => f \in Range(r)
            /\ \A i, j \in 1..Len(r) :
                  i < j => NotAfter(NameStart(r[i]), NameStart(r[j]))
            /\ extra \subseteq {1}
            /\ (extra = {1}) <=>
                  /\ \E f \in Range(listing) : Early(f)
                  /\ \A f \in Range(listing) : NameStart(f) # start_date
            /\ \A i \in extra :
                  /\ Early(r[i])
                  /\ \A g \in Range(listing) :
                        Early(g) => NotAfter(NameStart(g), NameStart(r[i]))

\* A predecessor was returned and an earlier file was left out
C9_Witness ==
    /\ StartSideCase
    /\ Len(filtered.val) >= 2
    /\ Early(filtered.val[1])
    /\ \E g \in Range(listing) :
          Before(NameStart(g), NameStart(filtered.val[1]))

Dec31 == FileName(None, DateStamp(2018, 12, 31), Version(1, 0, 0))
Jan01 == FileName(None, DateStamp(2019, 1, 1), Version(1, 0, 0))
Jan02 == FileName(None, DateStamp(2019, 1, 2), Version(1, 0, 0))

\* filter_time was called with start_date 2019-01-01T12:00:00 on files
\* starting 2018-12-31, 2019-01-01 and 2019-01-02, none after end_date
C10_Scenario ==
    /\ Range(listing) = {Dec31, Jan01, Jan02}
    /\ start_date = DateTime(2019, 1, 1, 12, 0, 0)
    /\ NotAfter(NameStart(Jan02), end_date)
    /\ filtered # NotCalled

\* C10 as stated: all three files are kept, in start order.
C10_KeepsAllThree == C10_Scenario => filtered = Ok(<<Dec31, Jan01, Jan02>>)

\* C10: in the scenario filter_time keeps the file of 2019-01-01, the one
\* file before start_date, and the file of 2019-01-02, in that order; the
\* file of 2018-12-31 is dropped.
C10_KeepsOnePredecessor == C10_Scenario => filtered = Ok(<<Jan01, Jan02>>)

\* C11: no file that filter_time returns starts after end_date, and when
\* start_date is not after end_date a file that starts exactly at end_date
\* is returned: the end-date bound is inclusive.
C11_EndSide ==
    filtered.err = "none" =>
        /\ \A f \in Range(filtered.val) : NotAfter(NameStart(f), end_date)
        /\ \A f \in Range(listing) :
              (NameStart(f) = end_date /\ NotAfter(start_date, end_date))
                  => f \in Range(filtered.val)

\* A file starting at end_date was returned and a later file was left out
C11_Witness ==
    /\ filtered.err = "none"
    /\ \E f \in Range(filtered.val) : NameStart(f) = end_date
    /\ \E g \in Range(listing) :
          Before(end_date, NameStart(g)) /\ g \notin Range(filtered.val)

\* The files of the listing that start on or before end_date
Kept == {f \in Range(listing) : NotAfter(NameStart(f), end_date)}

\* The files of Kept that start last
Latest == {f \in Kept : \A g \in Kept : NotAfter(NameStart(g), NameStart(f))}

\* C12: when some file starts on or before end_date and none of those
\* starts at or after start_date, filter_time returns the single latest of
\* them if it starts on the calendar day of start_date, and the empty list
\* otherwise.
C12_SpecialCase ==
    (filtered # NotCalled /\ Kept # {}
        /\ \A f \in Kept : Before(NameStart(f), start_date)) =>
        IF \E f \in Latest : NameStart(f).day = start_date.day
        THEN \E f \in Latest : filtered = Ok(<<f>>)
        ELSE filtered = Ok(<<>>)

\* C13: given no file, or no file that starts on or before end_date,
\* filter_time returns the empty list and raises nothing.
C13_EmptyResult ==
    (filtered # NotCalled /\ Kept = {}) => filtered = Ok(<<>>)

\* C14: filter_time applied, with the same range, to the non-empty list
\* filter_time returned gives that list back, same files in the same order.
C14_Idempotent == refiltered # NotCalled => refiltered = filtered

\* The second call was given a predecessor and two files in range, of a
\* listing the first call had dropped a file from
C14_Witness ==
    /\ refiltered # NotCalled
    /\ refiltered.err = "none"
    /\ Len(refiltered.val) = 2
    /\ Early(refiltered.val[1])
    /\ Len(listing) = 3

\* How many values a field holds
FieldCount(x) == Len(AsList(x).l)

\* s_i_m_l[_o]_t_vV.cdf for every combination of one value of each field,
\* without a descriptor segment when optdesc is None
ExpectedNames(a) ==
    {Join(US, <<s, i, m, l>> \o o \o <<t, <<"v">> \o v \o CdfExt>>) :
        s \in Values(a.sc), i \in Values(a.instr), m \in Values(a.mode),
        l \in Values(a.level),
        o \in (IF a.optdesc.t = "None" THEN {<<>>}
               ELSE {<<d>> : d \in Values(a.optdesc)}),
        t \in Values(a.tstart), v \in Values(a.version)}

\* C15: given every field but possibly the descriptor, construct_filename
\* returns as many names as the product of the numbers of values of its
\* fields, and they are the names sc_instr_mode_level[_optdesc]_tstart_
\* vVERSION.cdf of the combinations, with no descriptor segment when optdesc
\* is None.
C15_CartesianProduct ==
    (fnames # NotCalled
        /\ \A x \in {args.sc, args.instr, args.mode, args.level,
                      args.tstart, args.version} : x.t # "None") =>
        /\ fnames.err = "none"
        /\ Len(fnames.val) =
              FieldCount(args.sc) * FieldCount(args.instr)
              * FieldCount(args.mode) * FieldCount(args.level)
              * (IF args.optdesc.t = "None" THEN 1
                 ELSE FieldCount(args.optdesc))
              * FieldCount(args.tstart) * FieldCount(args.version)
        /\ Range(fnames.val) = ExpectedNames(args)

\* Two spacecraft and two descriptors gave four names
C15_Witness ==
    /\ fnames.err = "none"
    /\ FieldCount(args.sc) = 2
    /\ args.optdesc.t = "list"
    /\ Len(fnames.val) = 4

\* C16: called without one of sc, instr, mode and level, construct_filename
\* raises and returns no list of names.
C16_RequiredFields ==
    (fnames # NotCalled
        /\ \E x \in {args.sc, args.instr, args.mode, args.level} :
              x.t = "None") =>
        fnames.err # "none"

\* "X.Y.Z" with X, Y and Z decimal integers
IsVersion(v) ==
    LET p == Split(v, ".")
    IN  Len(p) = 3 /\ \A k \in 1..3 : Len(p[k]) > 0 /\ AllDigits(p[k])

\* A name of 6 or 7 '_'-separated segments, the last one vX.Y.Z and the
\* extension
WellFormedName(name) ==
    LET p    == Split(basename(name), "_")
        seg  == p[Len(p)]
    IN  /\ Len(p) \in {6, 7}
        /\ Len(seg) > 5
        /\ seg[1] = "v"
        /\ Slice(seg, -4, Len(seg)) = CdfExt
        /\ IsVersion(Slice(seg, 1, -4))

\* C17: parse_file_names fails when one of the names is not well formed,
\* and returns 7 fields for each name otherwise.
C17_MalformedName ==
    parts # NotCalled =>
        IF \A k \in 1..Len(fnames.val) : WellFormedName(fnames.val[k])
        THEN parts.err = "none"
             /\ \A k \in 1..Len(parts.val) : Len(parts.val[k]) = 7
        ELSE parts.err # "none"

\* root/sc/instr/mode/level[/optdesc]/YYYY/MM[/DD], the day directory for
\* mode brst only; an empty root is no root
ExpectedDir(root, s, i, m, l, o, t) ==
    Join(<<"/">>,
         (IF root = <<>> THEN <<>> ELSE <<root>>) \o <<s, i, m, l>> \o o
         \o <<SubSeq(t, 1, 4), SubSeq(t, 5, 6)>>
         \o (IF m = brst THEN <<SubSeq(t, 7, 8)>> ELSE <<>>))

\* The combinations of one value of each field, the descriptor as a list of
\* no or one segment
Combinations(a) ==
    {<<s, i, m, l, o, t>> :
        s \in Values(a.sc), i \in Values(a.instr), m \in Values(a.mode),
        l \in Values(a.level),
        o \in (IF a.optdesc.t = "None" THEN {<<>>}
               ELSE {<<d>> : d \in Values(a.optdesc)}),
        t \in Values(a.tstart)}

\* C18: construct_path returns, for every combination of its fields, the
\* directory root/sc/instr/mode/level[/optdesc]/YYYY/MM/DD when the mode is
\* brst and root/sc/instr/mode/level[/optdesc]/YYYY/MM otherwise, followed
\* by the file glob when files is true; it returns nothing else.
C18_ModeToDepth ==
    paths # NotCalled =>
        /\ paths.err = "none"
        /\ Len(paths.val) = Cardinality(Combinations(pargs))
        /\ Range(paths.val) =
              {ExpectedDir(pargs.root, c[1], c[2], c[3], c[4], c[5], c[6])
               \o (IF pargs.files
                   THEN <<"/">> \o FileGlob(c[1], c[2], c[3], c[4], c[5],
                                            c[6])
                   ELSE <<>>) :
               c \in Combinations(pargs)}

\* construct_path gave /data/mms1/fpi/brst/l2/dis-moms/2019/01/01 for brst
\* and /data/mms1/fpi/fast/l2/dis-moms/2019/01 for fast
C18_Witness ==
    /\ paths.err = "none"
    /\ ~pargs.files
    /\ Join(<<"/">>, <<data, mms1, fpi, brst, l2, dis_moms,
                       <<"2", "0", "1", "9">>, <<"0", "1">>, <<"0", "1">> >>)
          \in Range(paths.val)
    /\ Join(<<"/">>, <<data, mms1, fpi, fast, l2, dis_moms,
                       <<"2", "0", "1", "9">>, <<"0", "1">> >>)
          \in Range(paths.val)

\* The path of a file in the directory construct_path builds from the
\* components and the date of its name
PathOf(name, root) ==
    LET p == ParseOne(name)
        dir == construct_path(
                   [sc |-> Str(p[1]), instr |-> Str(p[2]), mode |-> Str(p[3]),
                    level |-> Str(p[4]), tstart |-> Str(p[6]),
                    optdesc |-> IF p[5] = <<>> THEN None ELSE Str(p[5]),
                    root |-> root, files |-> FALSE]).val[1]
    IN  dir \o <<"/">> \o name

\* C19: name2path and filename2path put a well-formed file name into the
\* directory construct_path builds from the name's components and date.
C19_SameDirectory ==
    /\ npath # NotCalled => npath = Ok(PathOf(pname, pargs.root))
    /\ fpaths # NotCalled => fpaths = Ok(<<PathOf(pname, pargs.root)>>)

\* The product-selection attributes
Selection == {"sc", "instr", "mode", "level", "optdesc", "version"}

\* C20: right after files is assigned a value that is not None, sc, instr,
\* mode, level, optdesc and version are None and files is the value; right
\* after files is assigned None, files is None and every other attribute is
\* what it was.
C20_FilesClearsSelection ==
    last.name = "files" =>
        /\ last.err = "none"
        /\ desc["files"] = last.value
        /\ IF last.value.t # "None"
           THEN \A n \in Selection : desc[n].t = "None"
           ELSE \A n \in Range(AttrNames) \ {"files"} :
                   desc[n] = last.before[n]

\* files was assigned a name while all six selection attributes were set
C20_Witness ==
    /\ last.name = "files"
    /\ last.value.t = "str"
    /\ \A n \in Selection : last.before[n].t = "str"
    /\ \A n \in Selection : desc[n].t = "None"
    /\ desc["files"] = last.value

\* C21: right after an assignment to level, level is the value assigned and
\* site is 'public' when that value is None, 'l2' or 'l3' and 'sitl', the
\* team site, when it is any other level, whatever site was before.
C21_LevelImpliesSite ==
    last.name = "level" =>
        /\ last.err = "none"
        /\ desc["level"] = last.value
        /\ desc["site"] =
              IF last.value.t = "None" \/ last.value \in {Str(l2), Str(l3)}
              THEN Str(public) ELSE Str(sitl)

\* A team level was assigned while the site was the public one
C21_Witness ==
    /\ last.name = "level"
    /\ last.value = Str(l1a)
    /\ last.before["site"] = Str(public)
    /\ desc["site"] = Str(sitl)

\* C22: a downloader constructed with anc_product=True has data_type
\* 'ancillary' when construction ends, whatever data_type was passed.
C22_AncillaryForcesDataType ==
    (last.name = "__init__" /\ desc["anc_product"] = True) =>
        desc["data_type"] = Str(ancillary)

\* C23: a get() whose request is answered with 401 logs in and posts the
\* request again at most three times; it ends with the first ok response,
\* or, after three attempts that were not ok, with ConnectionError, and
\* with no other error.
C23_BoundedRetry ==
    (sess.pc = "done" /\ sess.logins > 0) =>
        /\ sess.logins <= maxAttempts
        /\ sess.result.err \in {"none", "ConnectionError"}
        /\ sess.result.err = "none" => IsOk(sess.status)
        /\ sess.result.err = "ConnectionError" => sess.logins = maxAttempts

\* The operations of a downloader that the offline flag governs
Operations ==
    {"search", "downloads", "download", "fname", "fnames", "intervals",
     "load_local_file"}

\* C24: when a request fails while download(interval) or fname(interval)
\* fetches the file of an interval, the operation ends in an error and does
\* not return a normal value.
C24_ErrorsPropagate ==
    (last.name \in {"download", "fname"} /\ last.failed) =>
        last.res.err # "none"

\* How often x occurs in the list l
Count(x, l) == Cardinality({i \in 1..Len(l) : l[i] = x})

\* C25: online, search() returns every file of the time-filtered listing
\* exactly once: in the local list, under its local name, when that name is
\* a file on disk, and in the remote list otherwise.
C25_Reconciliation ==
    \A L \in {IF last.name = "search"
              THEN file_names(listing, last.before["start_date"],
                              last.before["end_date"])
              ELSE NotCalled} :
        (/\ last.name = "search"
         /\ ~Truthy(last.before["offline"])
         /\ ~last.failed
         /\ L.err = "none") =>
            /\ last.res.err = "none"
            /\ Len(last.res.val.local) + Len(last.res.val.remote)
                  = Len(L.val)
            /\ \A i \in 1..Len(L.val) :
                  LET loc == remote2localnames(desc["data_root"].s,
                                               <<L.val[i]>>)[1]
                  IN  IF loc \in disk
                      THEN /\ Count(loc, last.res.val.local) = 1
                           /\ Count(L.val[i], last.res.val.remote) = 0
                      ELSE /\ Count(loc, last.res.val.local) = 0
                           /\ Count(L.val[i], last.res.val.remote) = 1

\* C26: no operation of a downloader whose offline is True posts a request.
C26_OfflinePostsNothing ==
    (last.name \in Operations /\ Truthy(last.before["offline"])) =>
        last.posted = 0

\* C27: after downloads(), returned or raised, sc, instr, mode, level,
\* optdesc, version, files and site are what they were before the call.
C27_DescriptorRestored ==
    last.name = "downloads" =>
        \A k \in Range(StateKeys) \cup {"site"} : desc[k] = last.before[k]

\* C28: fname(interval) of an interval of intervals() is the name of the
\* file the interval was derived from, and start_date and end_date are
\* after the call what they were before it.
C28_IntervalNamesItsFile ==
    (last.name = "fname" /\ last.src # None /\ ~last.failed) =>
        /\ last.res = Ok(basename(last.src.s))
        /\ desc["start_date"] = last.before["start_date"]
        /\ desc["end_date"] = last.before["end_date"]

\* C29: for start_date <= end_date, the dates local_file_names builds paths
\* for are the days from the day of start_date to the day of end_date, each
\* once, in order.
C29_EveryDaySearched ==
    (/\ last.name = "local_file_names"
     /\ NotAfter(last.before["start_date"], last.before["end_date"])) =>
        last.dates =
            [k \in 1..(last.before["end_date"].day
                       - last.before["start_date"].day + 1) |->
                strftime([day |-> last.before["start_date"].day + k - 1,
                          sec |-> 0])]

====
